---- MODULE Spec2Model ----
(***************************************************************************)
(* Goal tracker: the goal tree (goal.py) with its push-based auto-done     *)
(* propagation, and the specifier walks create / find / delete             *)
(* (goal_tracker.py).                                                      *)
(*                                                                         *)
(* Goals live in an arena `heap` (a sequence of goal records); a goal is   *)
(* referred to by its position in the arena and 0 stands for None.         *)
(* Strings (titles, specifiers) are sequences of one-character strings.    *)
(***************************************************************************)
EXTENDS Integers, Sequences, FiniteSets, TLC

VARIABLES heap, goal_data, pc, call

vars == <<heap, goal_data, pc, call>>

(***************************************************************************)
(* Bounds of the model.                                                    *)
(***************************************************************************)
MaxGoals == 3
MaxSegs == 3

(***************************************************************************)
(* Strings.                                                                *)
(***************************************************************************)
None == 0

Digits == {"0", "1", "2"}

DigitVal(c) == CASE c = "0" -> 0 [] c = "1" -> 1 [] c = "2" -> 2

RECURSIVE split(_)
split(s) ==
    IF \A i \in 1..Len(s) : s[i] # "."
    THEN <<s>>
    ELSE LET i == CHOOSE k \in 1..Len(s) :
                      s[k] = "." /\ \A j \in 1..(k - 1) : s[j] # "."
         IN  <<SubSeq(s, 1, i - 1)>> \o split(SubSeq(s, i + 1, Len(s)))

IntBody(title) ==
    IF title # <<>> /\ title[1] = "-" THEN Tail(title) ELSE title

string_is_int(title) ==
    /\ IntBody(title) # <<>>
    /\ \A i \in 1..Len(IntBody(title)) : IntBody(title)[i] \in Digits

RECURSIVE DecimalValue(_)
DecimalValue(ds) ==
    IF ds = <<>> THEN 0
    ELSE 10 * DecimalValue(SubSeq(ds, 1, Len(ds) - 1)) + DigitVal(ds[Len(ds)])

int(title) ==
    IF title[1] = "-" THEN 0 - DecimalValue(IntBody(title))
    ELSE DecimalValue(IntBody(title))

(***************************************************************************)
(* Goal objects.                                                           *)
(***************************************************************************)
done(h, g) ==
    IF h[g]._done = "auto" THEN h[g]._auto_done_result
    ELSE h[g]._done = "True"

auto(h, g) == h[g]._done = "auto"

Children(h, g) == {h[g].children[i] : i \in 1..Len(h[g].children)}

all(h, gs) == \A i \in 1..Len(gs) : done(h, gs[i])

\* Variant: the goal is recomputed but its parent is not notified.
_resolve_auto_done_local(h, g) ==
    IF h[g]._done = "auto"
    THEN [h EXCEPT ![g]._auto_done_result = all(h, h[g].children)]
    ELSE h

RECURSIVE _resolve_auto_done(_, _)
_resolve_auto_done(h, g) ==
    LET h1 == IF h[g]._done = "auto"
              THEN [h EXCEPT ![g]._auto_done_result = all(h, h[g].children)]
              ELSE h
    IN  IF h1[g].parent # None
        THEN _resolve_auto_done(h1, h1[g].parent)
        ELSE h1

\* Goal.__init__ with children = None: the new goal is the last of the arena.
Goal(h, title, d, parent) ==
    LET g  == Len(h) + 1
        h1 == Append(h, [title |-> title, _done |-> d, parent |-> parent,
                         children |-> <<>>, _auto_done_result |-> FALSE])
    IN  [heap |-> _resolve_auto_done(h1, g), goal |-> g]

done_setter(h, g, val) ==
    _resolve_auto_done([h EXCEPT ![g]._done = val], g)

(***************************************************************************)
(* Goal._ChildList: the child sequence of goal p.  Each overridden method  *)
(* changes the list and then notifies p.                                   *)
(***************************************************************************)
RemoveFirst(seq, x) ==
    LET i == CHOOSE k \in 1..Len(seq) :
                 seq[k] = x /\ \A j \in 1..(k - 1) : seq[j] # x
    IN  SubSeq(seq, 1, i - 1) \o SubSeq(seq, i + 1, Len(seq))

append(h, p, x) ==
    _resolve_auto_done([h EXCEPT ![p].children = Append(@, x)], p)

extend(h, p, xs) ==
    _resolve_auto_done([h EXCEPT ![p].children = @ \o xs], p)

\* Variant: every child goes, not only x.
remove_all(h, p, x) ==
    _resolve_auto_done([h EXCEPT ![p].children = <<>>], p)

remove(h, p, x) ==
    _resolve_auto_done([h EXCEPT ![p].children = RemoveFirst(@, x)], p)

insert(h, p, i, x) ==
    _resolve_auto_done(
        [h EXCEPT ![p].children =
            SubSeq(@, 1, i) \o <<x>> \o SubSeq(@, i + 1, Len(@))], p)

__delitem__(h, p, key) ==
    _resolve_auto_done(
        [h EXCEPT ![p].children =
            SubSeq(@, 1, key) \o SubSeq(@, key + 2, Len(@))], p)

\* A negative index counts from the end of the list, as in list.pop.
pop(h, p, index) ==
    LET key == IF index < 0 THEN Len(h[p].children) + index ELSE index
    IN  _resolve_auto_done(
            [h EXCEPT ![p].children =
                SubSeq(@, 1, key) \o SubSeq(@, key + 2, Len(@))], p)

clear(h, p) ==
    _resolve_auto_done([h EXCEPT ![p].children = <<>>], p)

\* _ChildList does not override __setitem__: list's own runs, and the
\* parent is not notified.
__setitem__(h, p, key, value) ==
    [h EXCEPT ![p].children[key + 1] = value]

(***************************************************************************)
(* The specifier walks.  A search list is named by its owner: None for     *)
(* the plain root list goal_data, a goal for that goal's children.  The    *)
(* locals of a walk are a record; `raised` holds the ValueError that ended *)
(* the walk, "" while there is none.                                       *)
(***************************************************************************)
LastElementIndex == "ValueError: Last element in specifier cannot be an index"
IndexNotInRange == "ValueError: Index not in range"
IntegerTitle == "ValueError: Cannot create a goal with title: name cannot be an integer"

SearchList(h, gd, owner) == IF owner = None THEN gd ELSE h[owner].children

\* Variant: the matches are listed from the end of the search list.
TitleSearchReversed(h, search_list, lookup_title) ==
    LET matches == SelectSeq(search_list, LAMBDA x : h[x].title = lookup_title)
    IN  [i \in 1..Len(matches) |-> matches[Len(matches) + 1 - i]]

\* Variant: the title looked up is dropped, so that no goal matches.
TitleSearchNoMatch(h, search_list, lookup_title) ==
    SelectSeq(search_list, LAMBDA x : h[x].title = <<>>)

TitleSearch(h, search_list, lookup_title) ==
    SelectSeq(search_list, LAMBDA x : h[x].title = lookup_title)

range(n) == 0..(n - 1)

\* Variant: the parent keeps its mode.
ForceAutoNot(h, curr_parent) == h

\* if curr_parent is not None: curr_parent.done = 'auto'
ForceAuto(h, curr_parent) ==
    IF curr_parent # None THEN done_setter(h, curr_parent, "auto") ELSE h

\* Variant: an integer is accepted as the last segment.
create_index_branch_nolast(L, specifier_list, idx, lookup_title) ==
    LET search_list == SearchList(L.heap, L.goal_data, L.search_list)
    IN  IF int(lookup_title) \notin range(Len(search_list))
        THEN [L EXCEPT !.raised = IndexNotInRange]
        ELSE LET curr_goal == search_list[int(lookup_title) + 1]
             IN  [L EXCEPT !.heap = ForceAuto(L.heap, L.curr_parent),
                           !.search_list = curr_goal,
                           !.curr_parent = curr_goal]

\* The integer branch of create_from_specifier.
create_index_branch(L, specifier_list, idx, lookup_title) ==
    LET search_list == SearchList(L.heap, L.goal_data, L.search_list)
    IN  IF idx = Len(specifier_list) - 1
        THEN [L EXCEPT !.raised = LastElementIndex]
        ELSE IF int(lookup_title) \notin range(Len(search_list))
        THEN [L EXCEPT !.raised = IndexNotInRange]
        ELSE LET curr_goal == search_list[int(lookup_title) + 1]
             IN  [L EXCEPT !.heap = ForceAuto(L.heap, L.curr_parent),
                           !.search_list = curr_goal,
                           !.curr_parent = curr_goal]

\* Variant: the new goal is added but `result` is left as it was.
create_new_branch_noresult(L, lookup_title) ==
    IF string_is_int(lookup_title)
    THEN [L EXCEPT !.raised = IntegerTitle]
    ELSE LET made      == Goal(ForceAuto(L.heap, L.curr_parent), lookup_title,
                               "False", L.curr_parent)
             curr_goal == made.goal
         IN  [L EXCEPT !.heap = IF L.search_list = None THEN made.heap
                                ELSE append(made.heap, L.search_list, curr_goal),
                       !.goal_data = IF L.search_list = None
                                     THEN Append(L.goal_data, curr_goal)
                                     ELSE L.goal_data,
                       !.search_list = curr_goal,
                       !.curr_parent = curr_goal]

\* The title branch when no goal of the search list has the title.
create_new_branch(L, lookup_title) ==
    IF string_is_int(lookup_title)
    THEN [L EXCEPT !.raised = IntegerTitle]
    ELSE LET made      == Goal(ForceAuto(L.heap, L.curr_parent), lookup_title,
                               "False", L.curr_parent)
             curr_goal == made.goal
         IN  [L EXCEPT !.heap = IF L.search_list = None THEN made.heap
                                ELSE append(made.heap, L.search_list, curr_goal),
                       !.goal_data = IF L.search_list = None
                                     THEN Append(L.goal_data, curr_goal)
                                     ELSE L.goal_data,
                       !.search_list = curr_goal,
                       !.result = TRUE,
                       !.curr_parent = curr_goal]

\* Variant: descending into an existing goal leaves the parent's mode alone.
create_existing_branch_noauto(L, search_result) ==
    LET curr_goal == search_result[1]
    IN  [L EXCEPT !.search_list = curr_goal,
                  !.curr_parent = curr_goal]

\* Variant: descending into an existing goal counts as a creation.
create_existing_branch_result(L, search_result) ==
    LET curr_goal == search_result[1]
    IN  [L EXCEPT !.heap = ForceAuto(L.heap, L.curr_parent),
                  !.search_list = curr_goal,
                  !.result = TRUE,
                  !.curr_parent = curr_goal]

\* The title branch when the goal exists.
create_existing_branch(L, search_result) ==
    LET curr_goal == search_result[1]
    IN  [L EXCEPT !.heap = ForceAuto(L.heap, L.curr_parent),
                  !.search_list = curr_goal,
                  !.curr_parent = curr_goal]

create_step(L, specifier_list, idx) ==
    LET lookup_title == specifier_list[idx + 1]
        search_list  == SearchList(L.heap, L.goal_data, L.search_list)
        search_result == TitleSearch(L.heap, search_list, lookup_title)
    IN  IF string_is_int(lookup_title)
        THEN create_index_branch(L, specifier_list, idx, lookup_title)
        ELSE IF Len(search_result) = 0
        THEN create_new_branch(L, lookup_title)
        ELSE create_existing_branch(L, search_result)

RECURSIVE create_walk(_, _, _)
create_walk(L, specifier_list, idx) ==
    IF L.raised # ""
    THEN [heap |-> L.heap, goal_data |-> L.goal_data, ret |-> L.raised]
    ELSE IF idx = Len(specifier_list)
    THEN [heap |-> L.heap, goal_data |-> L.goal_data,
          ret |-> IF L.result THEN "True" ELSE "False"]
    ELSE create_walk(create_step(L, specifier_list, idx), specifier_list,
                     idx + 1)

create_from_specifier(h, gd, specifier) ==
    create_walk([heap |-> h, goal_data |-> gd, search_list |-> None,
                 curr_parent |-> None, result |-> FALSE, raised |-> ""],
                split(specifier), 0)

RECURSIVE find_walk(_, _, _, _)
find_walk(h, specifier, search_list, result) ==
    IF specifier = <<>>
    THEN [ret |-> "returned", goal |-> result]
    ELSE
    LET lookup_title == Head(specifier)
    IN
    IF string_is_int(lookup_title)
    THEN IF int(lookup_title) \notin range(Len(search_list))
         THEN [ret |-> IndexNotInRange, goal |-> None]
         ELSE LET found == search_list[int(lookup_title) + 1]
              IN  find_walk(h, Tail(specifier), h[found].children, found)
    ELSE
    LET search_result == TitleSearch(h, search_list, lookup_title)
    IN  IF Len(search_result) = 0
        THEN [ret |-> "returned", goal |-> None]
        ELSE find_walk(h, Tail(specifier), h[search_result[1]].children,
                       search_result[1])

find_from_specifier(h, gd, specifier) ==
    find_walk(h, split(specifier), gd, None)

\* Variant: the parent of the removed goal is never reset.
RemoveGoalNoReset(L, to_remove) ==
    [L EXCEPT !.heap = IF L.search_list = None THEN L.heap
                       ELSE remove(L.heap, L.search_list, to_remove),
              !.goal_data = IF L.search_list = None
                            THEN RemoveFirst(L.goal_data, to_remove)
                            ELSE L.goal_data,
              !.result = TRUE]

\* search_list.remove(to_remove); result = True; then the parent of the
\* removed goal is reset when the search list became empty.
RemoveGoal(L, to_remove) ==
    LET h1  == IF L.search_list = None THEN L.heap
               ELSE remove(L.heap, L.search_list, to_remove)
        gd1 == IF L.search_list = None
               THEN RemoveFirst(L.goal_data, to_remove)
               ELSE L.goal_data
        h2  == IF /\ h1[to_remove].parent # None
                  /\ Len(SearchList(h1, gd1, L.search_list)) = 0
               THEN done_setter(h1, h1[to_remove].parent, "False")
               ELSE h1
    IN  [L EXCEPT !.heap = h2, !.goal_data = gd1, !.result = TRUE]

\* The integer branch of delete_from_specifier.
delete_index_branch(L, specifier_list, idx, lookup_title) ==
    LET search_list == SearchList(L.heap, L.goal_data, L.search_list)
    IN  IF int(lookup_title) \notin range(Len(search_list))
        THEN [L EXCEPT !.raised = IndexNotInRange]
        ELSE IF idx = Len(specifier_list) - 1
        THEN RemoveGoal(L, search_list[int(lookup_title) + 1])
        ELSE [L EXCEPT !.search_list = search_list[int(lookup_title) + 1]]

\* Variant: the goal is removed at whichever segment matches it.
delete_title_branch_eager(L, specifier_list, idx, lookup_title) ==
    LET search_list == SearchList(L.heap, L.goal_data, L.search_list)
        search_result == TitleSearch(L.heap, search_list, lookup_title)
    IN  IF Len(search_result) = 0
        THEN [L EXCEPT !.returned = TRUE]
        ELSE RemoveGoal(L, search_result[1])

\* The title branch of delete_from_specifier; `returned` is the early return.
delete_title_branch(L, specifier_list, idx, lookup_title) ==
    LET search_list == SearchList(L.heap, L.goal_data, L.search_list)
        search_result == TitleSearch(L.heap, search_list, lookup_title)
    IN  IF Len(search_result) = 0
        THEN [L EXCEPT !.returned = TRUE]
        ELSE IF idx = Len(specifier_list) - 1
        THEN RemoveGoal(L, search_result[1])
        ELSE [L EXCEPT !.search_list = search_result[1]]

RECURSIVE delete_walk(_, _, _)
delete_walk(L, specifier_list, idx) ==
    IF L.raised # ""
    THEN [heap |-> L.heap, goal_data |-> L.goal_data, ret |-> L.raised]
    ELSE IF L.returned \/ idx = Len(specifier_list)
    THEN [heap |-> L.heap, goal_data |-> L.goal_data,
          ret |-> IF L.result THEN "True" ELSE "False"]
    ELSE IF string_is_int(specifier_list[idx + 1])
    THEN delete_walk(delete_index_branch(L, specifier_list, idx,
                                         specifier_list[idx + 1]),
                     specifier_list, idx + 1)
    ELSE delete_walk(delete_title_branch(L, specifier_list, idx,
                                         specifier_list[idx + 1]),
                     specifier_list, idx + 1)

delete_from_specifier(h, gd, specifier) ==
    delete_walk([heap |-> h, goal_data |-> gd, search_list |-> None,
                 result |-> FALSE, raised |-> "", returned |-> FALSE],
                split(specifier), 0)

(***************************************************************************)
(* Serialization: Goal.__dict__ and Goal.from_dict.                        *)
(***************************************************************************)
RECURSIVE __dict__derived(_, _)
\* Variant: the derived value is stored in place of the mode.
__dict__derived(h, g) ==
    [title |-> h[g].title,
     done |-> IF done(h, g) THEN "True" ELSE "False",
     children |-> [i \in 1..Len(h[g].children) |->
                       __dict__derived(h, h[g].children[i])]]

RECURSIVE __dict__(_, _)
__dict__(h, g) ==
    [title |-> h[g].title,
     done |-> h[g]._done,
     children |-> [i \in 1..Len(h[g].children) |->
                       __dict__(h, h[g].children[i])]]

RECURSIVE from_dict(_, _, _)
RECURSIVE parse_children(_, _, _)

\* The list comprehension of line 123: the children are built left to right.
parse_children(h, dicts, parent) ==
    IF dicts = <<>>
    THEN [heap |-> h, goals |-> <<>>]
    ELSE LET first == from_dict(h, Head(dicts), parent)
             rest  == parse_children(first.heap, Tail(dicts), parent)
         IN  [heap |-> rest.heap, goals |-> <<first.goal>> \o rest.goals]

\* Variant: the children are given the parent of the goal, not the goal.
from_dict_parent(h, dictionary, parent) ==
    LET made == Goal(h, dictionary.title, dictionary.done, parent)
        parsed_children == parse_children(made.heap, dictionary.children,
                                          parent)
    IN  [heap |-> extend(parsed_children.heap, made.goal,
                         parsed_children.goals),
         goal |-> made.goal]

from_dict(h, dictionary, parent) ==
    LET made == Goal(h, dictionary.title, dictionary.done, parent)
        parsed_children == parse_children(made.heap, dictionary.children,
                                          made.goal)
    IN  [heap |-> extend(parsed_children.heap, made.goal,
                         parsed_children.goals),
         goal |-> made.goal]

RECURSIVE load(_, _)
\* goal_data = [Goal.from_dict(x) for x in json_data]
load(h, json_data) ==
    IF json_data = <<>>
    THEN [heap |-> h, goal_data |-> <<>>]
    ELSE LET first == from_dict(h, Head(json_data), None)
             rest  == load(first.heap, Tail(json_data))
         IN  [heap |-> rest.heap, goal_data |-> <<first.goal>> \o rest.goal_data]

dump(h, gd) == [i \in 1..Len(gd) |-> __dict__(h, gd[i])]

(***************************************************************************)
(* Goals no longer reachable from the root list are reclaimed; the goals   *)
(* that remain are renumbered in preorder.                                 *)
(***************************************************************************)
RECURSIVE Preorder(_, _)
Preorder(h, gs) ==
    IF gs = <<>> THEN <<>>
    ELSE <<Head(gs)>> \o Preorder(h, h[Head(gs)].children)
                      \o Preorder(h, Tail(gs))

Reclaim(h, gd) ==
    LET order == Preorder(h, gd)
        new(g) == IF g = None THEN None
                  ELSE IF \E i \in 1..Len(order) : order[i] = g
                  THEN CHOOSE i \in 1..Len(order) : order[i] = g
                  ELSE None
    IN  [heap |-> [i \in 1..Len(order) |->
                     [title |-> h[order[i]].title,
                      _done |-> h[order[i]]._done,
                      parent |-> new(h[order[i]].parent),
                      children |-> [k \in 1..Len(h[order[i]].children) |->
                                       new(h[order[i]].children[k])],
                      _auto_done_result |-> h[order[i]]._auto_done_result]],
         goal_data |-> [k \in 1..Len(gd) |-> new(gd[k])]]

(***************************************************************************)
(* Inputs.                                                                 *)
(***************************************************************************)
Titles == {<<"a">>, <<"b">>}
Indices == {<<"0">>, <<"1">>}
Segments == Titles \cup Indices
DoneValues == {"True", "False", "auto"}

RECURSIVE join(_)
join(segs) ==
    IF Len(segs) = 1 THEN segs[1]
    ELSE segs[1] \o <<".">> \o join(Tail(segs))

Specifiers ==
    {join(segs) : segs \in UNION {[1..n -> Segments] : n \in 1..MaxSegs}}

Leaf(title, d) == [title |-> title, done |-> d, children |-> <<>>]

\* Stored documents: the empty one, and one holding what no walk produces
\* (an explicit goal with children, a childless auto goal, equal sibling
\* titles).
Documents ==
    {<<>>,
     <<[title |-> <<"a">>, done |-> "auto",
        children |-> <<Leaf(<<"b">>, "False")>>]>>,
     <<[title |-> <<"a">>, done |-> "True",
        children |-> <<Leaf(<<"b">>, "auto"), Leaf(<<"b">>, "False")>>]>>}

NoCall ==
    [op |-> "none", specifier |-> <<>>, goal |-> None, val |-> "none",
     ret |-> "none", first |-> "none", found |-> None, heap |-> <<>>, goal_data |-> <<>>]

(***************************************************************************)
(* The state machine: an operation is applied to the idle document and     *)
(* `call` keeps its arguments, its outcome and the document it started     *)
(* from until the caller has taken the outcome.                            *)
(***************************************************************************)
Init ==
    /\ \E json_data \in Documents :
          /\ heap = load(<<>>, json_data).heap
          /\ goal_data = load(<<>>, json_data).goal_data
    /\ pc = "idle"
    /\ call = NoCall

\* An idle document takes any create; after a create has returned, the same
\* create may be issued once more (call.first keeps how the first one ended).
Create(specifier) ==
    /\ \/ pc = "idle"
       \/ /\ pc = "returned"
          /\ call.op = "create"
          /\ call.specifier = specifier
          /\ call.first = "none"
    /\ LET r == create_from_specifier(heap, goal_data, specifier)
       IN  /\ Len(r.heap) <= MaxGoals
           /\ heap' = r.heap
           /\ goal_data' = r.goal_data
           /\ call' = [NoCall EXCEPT !.op = "create",
                                     !.specifier = specifier,
                                     !.ret = r.ret,
                                     !.first = IF pc = "idle" THEN "none"
                                               ELSE call.ret,
                                     !.heap = heap,
                                     !.goal_data = goal_data]
    /\ pc' = "returned"

Find(specifier) ==
    /\ pc = "idle"
    /\ LET r == find_from_specifier(heap, goal_data, specifier)
       IN  call' = [NoCall EXCEPT !.op = "find",
                                  !.specifier = specifier,
                                  !.ret = r.ret,
                                  !.found = r.goal,
                                  !.heap = heap,
                                  !.goal_data = goal_data]
    /\ pc' = "returned"
    /\ UNCHANGED <<heap, goal_data>>

Delete(specifier) ==
    /\ pc = "idle"
    /\ LET r == delete_from_specifier(heap, goal_data, specifier)
       IN  /\ heap' = r.heap
           /\ goal_data' = r.goal_data
           /\ call' = [NoCall EXCEPT !.op = "delete",
                                     !.specifier = specifier,
                                     !.ret = r.ret,
                                     !.heap = heap,
                                     !.goal_data = goal_data]
    /\ pc' = "returned"

SetDone(g, val) ==
    /\ pc = "idle"
    /\ g \in 1..Len(heap)
    /\ heap' = done_setter(heap, g, val)
    /\ call' = [NoCall EXCEPT !.op = "done",
                              !.goal = g,
                              !.val = val,
                              !.heap = heap,
                              !.goal_data = goal_data]
    /\ pc' = "returned"
    /\ UNCHANGED goal_data

\* The document is written out and read back (lines 193-200).
Reload ==
    /\ pc = "idle"
    /\ heap' = load(<<>>, dump(heap, goal_data)).heap
    /\ goal_data' = load(<<>>, dump(heap, goal_data)).goal_data
    /\ call' = [NoCall EXCEPT !.op = "reload",
                              !.heap = heap,
                              !.goal_data = goal_data]
    /\ pc' = "returned"

Return ==
    /\ pc = "returned"
    /\ heap' = Reclaim(heap, goal_data).heap
    /\ goal_data' = Reclaim(heap, goal_data).goal_data
    /\ pc' = "idle"
    /\ call' = NoCall

Next ==
    \/ \E specifier \in Specifiers : Create(specifier)
    \/ \E specifier \in Specifiers : Find(specifier)
    \/ \E specifier \in Specifiers : Delete(specifier)
    \/ \E g \in 1..MaxGoals, val \in DoneValues : SetDone(g, val)
    \/ Reload
    \/ Return

Spec == Init /\ [][Next]_vars

TypeOK ==
    /\ pc \in {"idle", "returned"}
    /\ Len(Preorder(heap, goal_data)) <= MaxGoals

(***************************************************************************)
(* The child sequence on its own: every way of changing the children of a  *)
(* goal p of a loaded document.  Goals put into a list are new ones,       *)
(* constructed with p as their parent.                                     *)
(***************************************************************************)
ChildListCall(op, p) ==
    [NoCall EXCEPT !.op = op, !.goal = p, !.heap = heap,
                   !.goal_data = goal_data]

ListAppend(p, title, d) ==
    /\ pc = "idle"
    /\ p \in 1..Len(heap)
    /\ Len(heap) < MaxGoals
    /\ LET made == Goal(heap, title, d, p)
       IN  heap' = append(made.heap, p, made.goal)
    /\ call' = ChildListCall("append", p)
    /\ pc' = "returned"
    /\ UNCHANGED goal_data

ListExtend(p, title, d1, d2) ==
    /\ pc = "idle"
    /\ p \in 1..Len(heap)
    /\ Len(heap) + 2 <= MaxGoals
    /\ LET first  == Goal(heap, title, d1, p)
           second == Goal(first.heap, title, d2, p)
       IN  heap' = extend(second.heap, p, <<first.goal, second.goal>>)
    /\ call' = ChildListCall("extend", p)
    /\ pc' = "returned"
    /\ UNCHANGED goal_data

ListInsert(p, i, title, d) ==
    /\ pc = "idle"
    /\ p \in 1..Len(heap)
    /\ i \in 0..Len(heap[p].children)
    /\ Len(heap) < MaxGoals
    /\ LET made == Goal(heap, title, d, p)
       IN  heap' = insert(made.heap, p, i, made.goal)
    /\ call' = ChildListCall("insert", p)
    /\ pc' = "returned"
    /\ UNCHANGED goal_data

ListRemove(p, x) ==
    /\ pc = "idle"
    /\ p \in 1..Len(heap)
    /\ x \in Children(heap, p)
    /\ heap' = remove(heap, p, x)
    /\ call' = ChildListCall("remove", p)
    /\ pc' = "returned"
    /\ UNCHANGED goal_data

ListDelItem(p, key) ==
    /\ pc = "idle"
    /\ p \in 1..Len(heap)
    /\ key \in range(Len(heap[p].children))
    /\ heap' = __delitem__(heap, p, key)
    /\ call' = ChildListCall("__delitem__", p)
    /\ pc' = "returned"
    /\ UNCHANGED goal_data

ListPop(p, index) ==
    /\ pc = "idle"
    /\ p \in 1..Len(heap)
    /\ index \in range(Len(heap[p].children)) \cup {-1}
    /\ heap[p].children # <<>>
    /\ heap' = pop(heap, p, index)
    /\ call' = ChildListCall("pop", p)
    /\ pc' = "returned"
    /\ UNCHANGED goal_data

ListClear(p) ==
    /\ pc = "idle"
    /\ p \in 1..Len(heap)
    /\ heap' = clear(heap, p)
    /\ call' = ChildListCall("clear", p)
    /\ pc' = "returned"
    /\ UNCHANGED goal_data

ListSetItem(p, key, title, d) ==
    /\ pc = "idle"
    /\ p \in 1..Len(heap)
    /\ key \in range(Len(heap[p].children))
    /\ Len(heap) <= MaxGoals
    /\ LET made == Goal(heap, title, d, p)
       IN  heap' = __setitem__(made.heap, p, key, made.goal)
    /\ call' = ChildListCall("__setitem__", p)
    /\ pc' = "returned"
    /\ UNCHANGED goal_data

NextChildList ==
    \/ \E p \in 1..MaxGoals, t \in Titles, d \in DoneValues :
          ListAppend(p, t, d)
    \/ \E p \in 1..MaxGoals, t \in Titles, d1, d2 \in DoneValues :
          ListExtend(p, t, d1, d2)
    \/ \E p \in 1..MaxGoals, i \in 0..MaxGoals, t \in Titles,
          d \in DoneValues : ListInsert(p, i, t, d)
    \/ \E p, x \in 1..MaxGoals : ListRemove(p, x)
    \/ \E p \in 1..MaxGoals, key \in 0..MaxGoals : ListDelItem(p, key)
    \/ \E p \in 1..MaxGoals, index \in -1..MaxGoals : ListPop(p, index)
    \/ \E p \in 1..MaxGoals : ListClear(p)
    \/ \E p \in 1..MaxGoals, key \in 0..MaxGoals, t \in Titles,
          d \in DoneValues : ListSetItem(p, key, t, d)
    \/ Return

SpecChildList == Init /\ [][NextChildList]_vars

(***************************************************************************)
(* Properties.                                                             *)
(***************************************************************************)
Reachable ==
    {Preorder(heap, goal_data)[i] : i \in 1..Len(Preorder(heap, goal_data))}

\* C1: in every state reached by create, delete and the done setter from a
\* loaded or empty document, every goal in Auto mode has an effective done
\* value equal to the AND of its children's effective done values, and equal
\* to true when it has no children.
C1_AutoDoneIsConjunction ==
    \A g \in Reachable :
        auto(heap, g) =>
            /\ done(heap, g) = (\A c \in Children(heap, g) : done(heap, c))
            /\ (heap[g].children = <<>> => done(heap, g))

\* The done setter of a goal changed the derived value of its Auto
\* grandparent through its Auto parent.
C1_Witness ==
    /\ pc = "returned"
    /\ call.op = "done"
    /\ heap[call.goal].parent # None
    /\ heap[heap[call.goal].parent].parent # None
    /\ LET p  == heap[call.goal].parent
           gp == heap[heap[call.goal].parent].parent
       IN  /\ auto(heap, p)
           /\ auto(heap, gp)
           /\ auto(call.heap, gp)
           /\ done(heap, gp) # done(call.heap, gp)

CreateReturned ==
    /\ pc = "returned"
    /\ call.op = "create"
    /\ call.ret \in {"True", "False"}

NumSegments == Len(split(call.specifier))

\* The specifier made of the first k segments of the call's specifier.
Prefix(k) == join(SubSeq(split(call.specifier), 1, k))

\* What the first k segments address in the document as it is now.
Addressed(k) == find_from_specifier(heap, goal_data, Prefix(k))

\* The goals that were in the document when the call started.
Old == 1..Len(call.heap)

NumGoals(h, gd) == Len(Preorder(h, gd))

ExampleABC ==
    create_from_specifier(<<>>, <<>>, <<"a", ".", "b", ".", "c">>)

\* C3: after a create that succeeds, find with the same specifier resolves
\* to a goal; every goal addressed by a non-final segment is in Auto mode,
\* whatever its mode was and whether or not its child on the path is new;
\* a final goal that the walk created is explicit false and childless.
\* Create "a.b.c" on the empty document gives the chain a > b > c with a
\* and b Auto and c explicit false.
C3_CreateForcesAutoAlongPath ==
    /\ CreateReturned =>
          /\ \A k \in 1..NumSegments :
                /\ Addressed(k).ret = "returned"
                /\ Addressed(k).goal # None
          /\ \A k \in 1..(NumSegments - 1) : auto(heap, Addressed(k).goal)
          /\ Addressed(NumSegments).goal \notin Old =>
                /\ heap[Addressed(NumSegments).goal]._done = "False"
                /\ heap[Addressed(NumSegments).goal].children = <<>>
    /\ ExampleABC.ret = "True"
    /\ ExampleABC.goal_data = <<1>>
    /\ [i \in 1..3 |-> ExampleABC.heap[i].title] = <<<<"a">>, <<"b">>, <<"c">>>>
    /\ [i \in 1..3 |-> ExampleABC.heap[i]._done] = <<"auto", "auto", "False">>
    /\ [i \in 1..3 |-> ExampleABC.heap[i].children] = <<<<2>>, <<3>>, <<>>>>
    /\ Len(ExampleABC.heap) = 3

\* A three-segment create added its last goal under an existing path whose
\* first goal had an explicit completion before.
C3_Witness ==
    /\ CreateReturned
    /\ NumSegments = 3
    /\ Addressed(1).goal \in Old
    /\ Addressed(2).goal \in Old
    /\ Addressed(3).goal \notin Old
    /\ ~auto(call.heap, Addressed(1).goal)
    /\ auto(heap, Addressed(1).goal)

C5_CreateIdempotent ==
    (/\ pc = "returned"
     /\ call.op = "create"
     /\ call.first \in {"True", "False"}) =>
        /\ call.ret = "False"
        /\ heap = call.heap
        /\ goal_data = call.goal_data

\* The repeat of a three-segment create that had added goals.
C5_Witness ==
    /\ pc = "returned"
    /\ call.op = "create"
    /\ call.first = "True"
    /\ call.ret = "False"
    /\ NumSegments = 3

DeleteReturned == pc = "returned" /\ call.op = "delete"

\* What the call's specifier addressed in the document the call started from.
Target == find_from_specifier(call.heap, call.goal_data, call.specifier)

LastSegment == split(call.specifier)[NumSegments]

\* C6: when delete removes a goal that has a parent and leaves that parent
\* without children, the parent is explicit false (not Auto) and its
\* effective done is false, for a title and for an index as last segment;
\* a parent that still has children keeps its mode.
C6_DeleteResetsChildlessParent ==
    (/\ DeleteReturned
     /\ call.ret = "True"
     /\ call.heap[Target.goal].parent # None) =>
        LET parent == call.heap[Target.goal].parent
        IN  /\ Target.goal \notin Children(heap, parent)
            /\ heap[parent].children = <<>> =>
                  /\ heap[parent]._done = "False"
                  /\ ~done(heap, parent)
            /\ heap[parent].children # <<>> =>
                  heap[parent]._done = call.heap[parent]._done

\* Delete by index removed the only child of an Auto parent that was done.
C6_Witness ==
    /\ DeleteReturned
    /\ call.ret = "True"
    /\ string_is_int(LastSegment)
    /\ call.heap[Target.goal].parent # None
    /\ auto(call.heap, call.heap[Target.goal].parent)
    /\ done(call.heap, call.heap[Target.goal].parent)
    /\ heap[call.heap[Target.goal].parent].children = <<>>
    /\ heap[call.heap[Target.goal].parent]._done = "False"

\* C7: delete on a specifier that does not resolve changes nothing: it
\* returns false when a title segment has no match and fails with
\* IndexOutOfRange when an integer segment is out of range, and the tree is
\* as it was before the call.
C7_DeleteUnresolvedIsNoOp ==
    DeleteReturned =>
        /\ (call.ret = "True") <=>
              (Target.ret = "returned" /\ Target.goal # None)
        /\ (call.ret = "False") <=>
              (Target.ret = "returned" /\ Target.goal = None)
        /\ (call.ret = IndexNotInRange) <=> (Target.ret = IndexNotInRange)
        /\ call.ret # "True" => (heap = call.heap /\ goal_data = call.goal_data)

\* A three-segment delete failed on its second segment, an index out of
\* range in the children of an existing goal.
C7_Witness ==
    /\ DeleteReturned
    /\ NumSegments = 3
    /\ call.ret = IndexNotInRange
    /\ Addressed(1).goal # None
    /\ Addressed(2).ret = IndexNotInRange
    /\ heap = call.heap

\* One segment resolved against a search list yields goal g.
SegmentYields(h, list, segment, g) ==
    IF string_is_int(segment)
    THEN /\ int(segment) \in 0..(Len(list) - 1)
         /\ g = list[int(segment) + 1]
    ELSE \E i \in 1..Len(list) :
            /\ list[i] = g
            /\ h[g].title = segment
            /\ \A j \in 1..(i - 1) : h[list[j]].title # segment

\* One segment resolved against a search list yields nothing.
SegmentFails(h, list, segment) ==
    IF string_is_int(segment)
    THEN int(segment) \notin 0..(Len(list) - 1)
    ELSE \A i \in 1..Len(list) : h[list[i]].title # segment

\* The search list of segment i when path holds the goals of the segments
\* before it.
ListAt(h, gd, path, i) == IF i = 1 THEN gd ELSE h[path[i - 1]].children

\* C8: find resolves each segment against the current goal's child list:
\* an integer segment yields the child at that zero-based position and fails
\* with IndexOutOfRange when there is none; a title segment yields the first
\* child with that title and not-found, without failing, when there is
\* none; find adds no goal and changes no completion.
C8_FindResolvesSegments ==
    (pc = "returned" /\ call.op = "find") =>
        LET segs == split(call.specifier)
        IN  /\ \E k \in 0..Len(segs) :
                  \E path \in [1..k -> 1..Len(heap)] :
                     /\ \A i \in 1..k :
                           SegmentYields(heap, ListAt(heap, goal_data, path, i),
                                         segs[i], path[i])
                     /\ k = Len(segs) =>
                           (call.ret = "returned" /\ call.found = path[k])
                     /\ k < Len(segs) =>
                           /\ SegmentFails(heap,
                                           ListAt(heap, goal_data, path, k + 1),
                                           segs[k + 1])
                           /\ IF string_is_int(segs[k + 1])
                              THEN call.ret = IndexNotInRange
                              ELSE call.ret = "returned" /\ call.found = None
            /\ heap = call.heap
            /\ goal_data = call.goal_data

\* find took a title and then position 1 and returned the second child.
C8_Witness ==
    /\ pc = "returned"
    /\ call.op = "find"
    /\ call.specifier = <<"a", ".", "1">>
    /\ call.ret = "returned"
    /\ call.found # None
    /\ Len(heap[heap[call.found].parent].children) = 2
    /\ heap[heap[call.found].parent].children[2] = call.found

CreateEnded == pc = "returned" /\ call.op = "create"

\* C9 as stated: a create whose last segment is an integer literal fails
\* with InvalidTitle, for every tree.
C9_LastIndexAlwaysInvalidTitle ==
    (CreateEnded /\ string_is_int(LastSegment)) =>
        call.ret \in {LastElementIndex, IntegerTitle}

\* C9 amended: a create whose last segment is an integer literal always
\* fails, with IndexOutOfRange when an earlier integer segment is out of
\* range and with InvalidTitle otherwise, whether or not the last index
\* exists; and no create adds a goal whose title is an integer literal.
C9_LastIndexAlwaysFails ==
    CreateEnded =>
        /\ string_is_int(LastSegment) =>
              /\ call.ret \in {LastElementIndex, IndexNotInRange}
              /\ (call.ret = IndexNotInRange) <=>
                    (/\ NumSegments > 1
                     /\ Addressed(NumSegments - 1).ret = IndexNotInRange)
        /\ \A g \in 1..Len(heap) :
              g \notin Old => ~string_is_int(heap[g].title)

\* A create ended with InvalidTitle on a last index that exists in the
\* addressed child list.
C9_Witness ==
    /\ CreateEnded
    /\ NumSegments > 1
    /\ string_is_int(LastSegment)
    /\ call.ret = LastElementIndex
    /\ Addressed(NumSegments).goal # None

RECURSIVE View(_, _)
\* What can be observed of a goal: title, mode, effective done, children.
View(h, g) ==
    [title |-> h[g].title,
     mode |-> h[g]._done,
     effectiveDone |-> done(h, g),
     children |-> [i \in 1..Len(h[g].children) |-> View(h, h[g].children[i])]]

\* C10: writing every root with __dict__ and reading it back with from_dict
\* gives an identical tree (titles, modes, child order, effective done of
\* every goal) in which every child's parent is its reloaded parent.
C10_RoundTrip ==
    (pc = "returned" /\ call.op = "reload") =>
        /\ Len(goal_data) = Len(call.goal_data)
        /\ \A i \in 1..Len(goal_data) :
              /\ View(heap, goal_data[i]) = View(call.heap, call.goal_data[i])
              /\ heap[goal_data[i]].parent = None
        /\ \A g \in Reachable : \A c \in Children(heap, g) : heap[c].parent = g

\* A chain of three goals was reloaded whose two Auto goals are done.
C10_Witness ==
    /\ pc = "returned"
    /\ call.op = "reload"
    /\ Len(goal_data) = 1
    /\ auto(heap, goal_data[1])
    /\ done(heap, goal_data[1])
    /\ \E c \in Children(heap, goal_data[1]) :
          /\ auto(heap, c)
          /\ heap[c].children # <<>>

ChildListOps ==
    {"append", "extend", "insert", "remove", "__delitem__", "pop", "clear",
     "__setitem__"}

RECURSIVE Ancestors(_, _)
Ancestors(h, g) ==
    IF h[g].parent = None THEN {}
    ELSE {h[g].parent} \cup Ancestors(h, h[g].parent)

\* C2: every change of a goal's child sequence (append, insert, remove by
\* value, remove by position, clear, extend, replacement of a child in
\* place) recomputes the goal's derived value if it is in Auto mode and
\* then that of every ancestor, as part of the same operation.
C2_EveryMutationRecomputes ==
    (pc = "returned" /\ call.op \in ChildListOps) =>
        \A g \in {call.goal} \cup Ancestors(heap, call.goal) :
            auto(heap, g) =>
                heap[g]._auto_done_result = all(heap, heap[g].children)

\* The same for the methods _ChildList overrides.
C2_OverriddenMethodsRecompute ==
    (pc = "returned" /\ call.op \in ChildListOps \ {"__setitem__"}) =>
        \A g \in {call.goal} \cup Ancestors(heap, call.goal) :
            auto(heap, g) =>
                heap[g]._auto_done_result = all(heap, heap[g].children)

\* No two goals of one list have the same title, in the root list and in
\* the children of every goal the root list owns.
UniqueTitles(h, gd) ==
    LET unique(list) ==
            \A i, j \in 1..Len(list) :
                h[list[i]].title = h[list[j]].title => i = j
        order == Preorder(h, gd)
    IN  /\ unique(gd)
        /\ \A i \in 1..Len(order) : unique(h[order[i]].children)

\* C15: sibling titles stay unique: from a document whose sibling titles
\* are unique, no create, delete or done setter gives a goal, or the root
\* list, two children with the same title.
C15_SiblingTitlesStayUnique ==
    [][UniqueTitles(heap, goal_data) => UniqueTitles(heap', goal_data')]_vars

\* A create added a second child, with another title, to a goal.
C15_Witness ==
    /\ CreateReturned
    /\ call.ret = "True"
    /\ UniqueTitles(call.heap, call.goal_data)
    /\ UniqueTitles(heap, goal_data)
    /\ \E g \in Old :
          /\ Len(call.heap[g].children) = 1
          /\ Len(heap[g].children) = 2

RECURSIVE Descendants(_, _)
Descendants(h, g) ==
    Children(h, g) \cup UNION {Descendants(h, c) : c \in Children(h, g)}

Without(list, g) == SelectSeq(list, LAMBDA x : x # g)

Position(list, g) == CHOOSE i \in 1..Len(list) : list[i] = g

\* C17: a successful delete removes exactly the addressed goal and its
\* descendants, and no specifier resolves to any of them afterwards; every
\* other goal keeps its title, its children in their order and its mode,
\* but for the parent of the removed goal when it is left childless; the
\* later siblings of the removed goal move down by one position.
C17_DeleteRemovesExactlySubtree ==
    (DeleteReturned /\ call.ret = "True") =>
        LET removed == {Target.goal} \cup Descendants(call.heap, Target.goal)
            before  == {Preorder(call.heap, call.goal_data)[i] :
                           i \in 1..NumGoals(call.heap, call.goal_data)}
            parent  == call.heap[Target.goal].parent
            siblings == SearchList(call.heap, call.goal_data, parent)
        IN  /\ Reachable = before \ removed
            /\ \A specifier \in Specifiers :
                  find_from_specifier(heap, goal_data, specifier).goal
                      \notin removed
            /\ goal_data = Without(call.goal_data, Target.goal)
            /\ \A g \in Reachable :
                  /\ heap[g].title = call.heap[g].title
                  /\ heap[g].children =
                        Without(call.heap[g].children, Target.goal)
                  /\ (g # parent \/ heap[g].children # <<>>) =>
                        heap[g]._done = call.heap[g]._done
            /\ \A i \in 1..Len(siblings) :
                  i > Position(siblings, Target.goal) =>
                     SearchList(heap, goal_data, parent)[i - 1] = siblings[i]

\* Delete removed the first of two goals of a list, a goal with a child of
\* its own, and the second goal moved to position 0.
C17_Witness ==
    /\ DeleteReturned
    /\ call.ret = "True"
    /\ call.heap[Target.goal].children # <<>>
    /\ LET parent == call.heap[Target.goal].parent
           siblings == SearchList(call.heap, call.goal_data, parent)
       IN  /\ Len(siblings) = 2
           /\ siblings[1] = Target.goal
           /\ SearchList(heap, goal_data, parent) = <<siblings[2]>>

\* C18: a create that fails (InvalidTitle, IndexOutOfRange) leaves the tree
\* unchanged: no goal was added for the earlier segments and no mode was
\* changed.
C18_FailedCreateChangesNothing ==
    (CreateEnded /\ call.ret \notin {"True", "False"}) =>
        /\ heap = call.heap
        /\ goal_data = call.goal_data

\* C20: parent references agree with ownership: every goal of the root
\* list has no parent and every child of a goal the root list owns has
\* that goal as its parent.
C20_ParentsMatchOwnership ==
    /\ \A i \in 1..Len(goal_data) : heap[goal_data[i]].parent = None
    /\ \A g \in Reachable : \A c \in Children(heap, g) : heap[c].parent = g

\* A create under a loaded goal that has two children made a chain of
\* depth three.
C20_Witness ==
    /\ CreateReturned
    /\ call.ret = "True"
    /\ \E g \in Reachable \ Old :
          /\ heap[g].parent # None
          /\ heap[g].parent \in Old
          /\ heap[heap[g].parent].parent # None
          /\ g \in Children(heap, heap[g].parent)

(***************************************************************************)
(* The driver's --complete and --incomplete (main, lines 213-225).  The    *)
(* ValueError of find and the AttributeError of None.auto are not caught   *)
(* there: they end the run, and the document is not written.               *)
(***************************************************************************)
CannotMarkDone ==
    "Cannot mark autocomplete goal as done; must mark all children as done"
CannotMarkUndone ==
    "Cannot mark autocomplete goal as undone; must mark a child as undone"
NoneHasNoAuto == "AttributeError: 'NoneType' object has no attribute 'auto'"

\* Variant: the goal is set whatever its mode.
mark_unchecked(h, gd, specifier, val, message) ==
    LET to_mark == find_from_specifier(h, gd, specifier)
    IN  IF to_mark.ret # "returned"
        THEN [heap |-> h, ret |-> to_mark.ret, goal |-> None]
        ELSE IF to_mark.goal = None
        THEN [heap |-> h, ret |-> NoneHasNoAuto, goal |-> None]
        ELSE [heap |-> done_setter(h, to_mark.goal, val), ret |-> "None",
              goal |-> to_mark.goal]

mark(h, gd, specifier, val, message) ==
    LET to_mark == find_from_specifier(h, gd, specifier)
    IN  IF to_mark.ret # "returned"
        THEN [heap |-> h, ret |-> to_mark.ret, goal |-> None]
        ELSE IF to_mark.goal = None
        THEN [heap |-> h, ret |-> NoneHasNoAuto, goal |-> None]
        ELSE IF auto(h, to_mark.goal)
        THEN [heap |-> h, ret |-> message, goal |-> to_mark.goal]
        ELSE [heap |-> done_setter(h, to_mark.goal, val), ret |-> "None",
              goal |-> to_mark.goal]

complete(h, gd, specifier) == mark(h, gd, specifier, "True", CannotMarkDone)

incomplete(h, gd, specifier) ==
    mark(h, gd, specifier, "False", CannotMarkUndone)

Complete(specifier) ==
    /\ pc = "idle"
    /\ LET r == complete(heap, goal_data, specifier)
       IN  /\ heap' = r.heap
           /\ call' = [NoCall EXCEPT !.op = "complete",
                                     !.specifier = specifier,
                                     !.ret = r.ret,
                                     !.found = r.goal,
                                     !.heap = heap,
                                     !.goal_data = goal_data]
    /\ pc' = "returned"
    /\ UNCHANGED goal_data

Incomplete(specifier) ==
    /\ pc = "idle"
    /\ LET r == incomplete(heap, goal_data, specifier)
       IN  /\ heap' = r.heap
           /\ call' = [NoCall EXCEPT !.op = "incomplete",
                                     !.specifier = specifier,
                                     !.ret = r.ret,
                                     !.found = r.goal,
                                     !.heap = heap,
                                     !.goal_data = goal_data]
    /\ pc' = "returned"
    /\ UNCHANGED goal_data

\* The driver's operations on a document that starts empty; between two
\* invocations the document goes through the file (Reload).
InitDriver ==
    /\ heap = <<>>
    /\ goal_data = <<>>
    /\ pc = "idle"
    /\ call = NoCall

NextDriver ==
    \/ \E specifier \in Specifiers : Create(specifier)
    \/ \E specifier \in Specifiers : Delete(specifier)
    \/ \E specifier \in Specifiers : Complete(specifier)
    \/ \E specifier \in Specifiers : Incomplete(specifier)
    \/ Reload
    \/ Return

SpecDriver == InitDriver /\ [][NextDriver]_vars

MarkReturned == pc = "returned" /\ call.op \in {"complete", "incomplete"}

\* C11: --complete and --incomplete on a goal in Auto mode are refused
\* with a message, and no goal's mode or effective done changes; on a goal
\* in explicit mode they set its mode to explicit true and explicit false.
C11_MarkRefusedOnAuto ==
    (MarkReturned /\ call.found # None) =>
        IF auto(call.heap, call.found)
        THEN /\ call.ret = IF call.op = "complete" THEN CannotMarkDone
                           ELSE CannotMarkUndone
             /\ heap = call.heap
             /\ goal_data = call.goal_data
        ELSE /\ call.ret = "None"
             /\ heap[call.found]._done =
                   IF call.op = "complete" THEN "True" ELSE "False"
             /\ done(heap, call.found) = (call.op = "complete")

\* --complete was refused on an Auto goal whose child is not done.
C11_Witness ==
    /\ MarkReturned
    /\ call.op = "complete"
    /\ call.found # None
    /\ auto(call.heap, call.found)
    /\ ~ done(call.heap, call.found)
    /\ call.ret = CannotMarkDone

\* C19: in a document that began empty and saw only create, delete,
\* complete and incomplete of the driver, a goal is in Auto mode if and
\* only if it has at least one child.
C19_AutoIffHasChild ==
    \A g \in Reachable : auto(heap, g) <=> heap[g].children # <<>>

\* A create under a goal that --complete had set made that goal Auto.
C19_Witness ==
    /\ CreateReturned
    /\ call.ret = "True"
    /\ \E g \in Old :
          /\ call.heap[g]._done = "True"
          /\ call.heap[g].children = <<>>
          /\ auto(heap, g)
          /\ heap[g].children # <<>>

(***************************************************************************)
(* --progress (main, lines 234-248).                                       *)
(***************************************************************************)
MaxChildren == 201

\* Variant: the fraction is cut off, not rounded.
format_percent_floor(children_done, children) ==
    (100 * children_done) \div children

\* f'{children_done / children * 100:.0f}': the quotient and the product
\* are doubles and the format rounds the double to the nearest integer,
\* ties to even.  100 * k / n is a tie exactly when k / n = m / 200 with m
\* odd; of these hundred fractions the product is not the exact tie for two:
\* 0.575 * 100 = 57.49999999999999 and 0.545 * 100 = 54.50000000000001.
format_percent(children_done, children) ==
    LET q == (100 * children_done) \div children
        r == (100 * children_done) % children
    IN  IF 2 * r < children THEN q
        ELSE IF 2 * r > children THEN q + 1
        ELSE IF 200 * children_done = 115 * children THEN q
        ELSE IF 200 * children_done = 109 * children THEN q + 1
        ELSE IF q % 2 = 0 THEN q
        ELSE q + 1

\* What lines 239-248 print for a goal found: mode is the goal's _done,
\* children the length of its child list, children_done the number of its
\* children whose done is true.
progress(mode, children, children_done) ==
    IF mode = "auto"
    THEN IF children = 0 THEN "100%"
         ELSE ToString(format_percent(children_done, children)) \o "%"
    ELSE IF mode = "True" THEN "100%"
    ELSE "0%"

InitProgress ==
    /\ heap = <<>>
    /\ goal_data = <<>>
    /\ pc = "idle"
    /\ \E mode \in DoneValues, children \in 0..MaxChildren :
          \E children_done \in 0..children :
             call = [op |-> "progress", mode |-> mode, children |-> children,
                     children_done |-> children_done, stdout |-> <<>>]

Progress ==
    /\ pc = "idle"
    /\ call.op = "progress"
    /\ call' = [call EXCEPT !.stdout =
                   <<progress(call.mode, call.children, call.children_done)>>]
    /\ pc' = "returned"
    /\ UNCHANGED <<heap, goal_data>>

NextProgress == Progress

SpecProgress == InitProgress /\ [][NextProgress]_vars

ProgressPrinted == pc = "returned" /\ call.op = "progress"

\* The line printed is the percentage of children done, rounded to an
\* integer, for an Auto goal with children, and 100% or 0% otherwise.
ProgressIsRounded ==
    LET n == call.children
        k == call.children_done
    IN  /\ (call.mode = "True" \/ (call.mode = "auto" /\ n = 0)) =>
              call.stdout = <<"100%">>
        /\ call.mode = "False" => call.stdout = <<"0%">>
        /\ (call.mode = "auto" /\ n > 0) =>
              \E p \in 0..100 :
                  /\ call.stdout = <<ToString(p) \o "%">>
                  /\ 2 * (p * n - 100 * k) <= n
                  /\ 2 * (100 * k - p * n) <= n
        /\ (call.mode = "auto" /\ n = 4 /\ k = 2) => call.stdout = <<"50%">>

\* C16 as stated: --progress prints 100% for a done explicit goal and for
\* an Auto goal without children, 0% for an explicit goal not done, and
\* otherwise the rounded percentage of children done; 100% is printed for
\* an Auto goal only when all its children are done.
C16_HundredOnlyWhenAllDone ==
    ProgressPrinted =>
        /\ ProgressIsRounded
        /\ (call.mode = "auto" /\ call.stdout = <<"100%">>) =>
              call.children_done = call.children

\* C16, amended: as above, but 100% is printed for an Auto goal with
\* children whenever at least 99.5% of them are done: only when all are
\* done if it has fewer than 200 children, and also for 199 of 200.
C16_HundredWhenRoundsToHundred ==
    ProgressPrinted =>
        /\ ProgressIsRounded
        /\ (call.mode = "auto" /\ call.children > 0) =>
              (call.stdout = <<"100%">> <=>
                  200 * call.children_done >= 199 * call.children)
        /\ (call.mode = "auto" /\ call.stdout = <<"100%">>
               /\ call.children < 200) =>
              call.children_done = call.children

\* 199 of the 200 children of an Auto goal are done and 100% was printed.
C16_Witness ==
    /\ ProgressPrinted
    /\ call.mode = "auto"
    /\ call.children = 200
    /\ call.children_done = 199
    /\ call.stdout = <<"100%">>

(***************************************************************************)
(* One invocation of the driver (main, lines 170-259).  pc is the block    *)
(* of main that runs next and call is the invocation: its arguments, the   *)
(* file, what was printed and how far the run got.  An argument is <<>>    *)
(* when the flag is absent and <<specifier>> when it is given.  The file   *)
(* is either unreadable (open raises OSError) or holds a document; opening *)
(* it for writing succeeds.                                                *)
(***************************************************************************)
Unreadable == [readable |-> FALSE, json |-> <<>>]

Files == {[readable |-> TRUE, json |-> d] : d \in Documents} \cup {Unreadable}

MainSpecifiers == {<<"a">>, <<"a", ".", "b">>, <<"b">>, <<"1">>}

Argument == {<<>>} \cup {<<specifier>> : specifier \in MainSpecifiers}

FlagOrder ==
    <<"delete", "complete", "incomplete", "show", "progress", "list">>

RECURSIVE text(_)
text(chars) ==
    IF chars = <<>> THEN "" ELSE Head(chars) \o text(Tail(chars))

RECURSIVE Spaces(_)
Spaces(n) == IF n = 0 THEN "" ELSE " " \o Spaces(n - 1)

CouldNotOpen == "Could not open"
NoSuchGoalToDelete(specifier) ==
    "No such goal to delete: " \o text(specifier)
NoSuchGoalToPrintProgress(specifier) ==
    "No such goal to print progress: " \o text(specifier)
AlreadyExists(specifier) == text(specifier) \o " already exists"
NamespaceHasNoPrint ==
    "AttributeError: 'Namespace' object has no attribute 'print'"
UnexpectedKeyword ==
    "TypeError: Goal.pretty_str() got an unexpected keyword argument 'idx'"

pretty_str_parameters == {"self", "spaces", "space_inc"}

RECURSIVE pretty_str(_, _, _, _)
RECURSIVE pretty_children(_, _, _, _)
pretty_children(h, children, spaces, space_inc) ==
    IF children = <<>> THEN ""
    ELSE pretty_str(h, Head(children), spaces, space_inc)
             \o pretty_children(h, Tail(children), spaces, space_inc)

pretty_str(h, g, spaces, space_inc) ==
    Spaces(spaces) \o text(h[g].title)
        \o (IF done(h, g) THEN " (X)" ELSE "")
        \o (IF h[g]._done = "auto" THEN " (auto)" ELSE "")
        \o "\n"
        \o pretty_children(h, h[g].children, spaces + space_inc, space_inc)

children_done(h, g) ==
    Len(SelectSeq(h[g].children, LAMBDA x : done(h, x)))

InitMain ==
    /\ heap = <<>>
    /\ goal_data = <<>>
    /\ pc = "new"
    /\ \E file \in Files :
       \E args \in [new : Argument, delete : Argument, complete : Argument,
                    incomplete : Argument, show : Argument,
                    progress : Argument, list : BOOLEAN] :
          call = [op |-> "main",
                  args |-> args,
                  file0 |-> file, file |-> file, stdout |-> <<>>,
                  ran |-> {}, failed |-> {}, read_ok |-> FALSE,
                  created |-> "none", new_written |-> Unreadable,
                  written |-> FALSE, exception |-> "none"]

\* Lines 176-195: the file is read if it can be, the goal is created and
\* the document is written, whatever create did.
MainNew ==
    /\ pc = "new"
    /\ IF call.args.new = <<>>
       THEN UNCHANGED <<heap, goal_data, call>>
       ELSE LET specifier == call.args.new[1]
                read == IF call.file.readable
                        THEN load(<<>>, call.file.json)
                        ELSE [heap |-> <<>>, goal_data |-> <<>>]
                r == create_from_specifier(read.heap, read.goal_data,
                                           specifier)
                out_file == [readable |-> TRUE,
                             json |-> dump(r.heap, r.goal_data)]
            IN  /\ heap' = r.heap
                /\ goal_data' = r.goal_data
                /\ call' = [call EXCEPT
                      !.stdout = IF r.ret = "True" THEN @
                                 ELSE IF r.ret = "False"
                                 THEN Append(@, AlreadyExists(specifier))
                                 ELSE Append(@, r.ret),
                      !.created = r.ret,
                      !.file = out_file,
                      !.new_written = out_file]
    /\ pc' = "read"

\* Variant: a file that cannot be read is an empty document, with or
\* without --new.
MainReadTolerant ==
    /\ pc = "read"
    /\ LET read == IF call.file.readable
                   THEN load(<<>>, call.file.json)
                   ELSE [heap |-> <<>>, goal_data |-> <<>>]
       IN  /\ heap' = read.heap
           /\ goal_data' = read.goal_data
           /\ call' = [call EXCEPT !.read_ok = TRUE]
           /\ pc' = "delete"

\* Lines 197-203.
MainRead ==
    /\ pc = "read"
    /\ IF call.file.readable
       THEN /\ heap' = load(<<>>, call.file.json).heap
            /\ goal_data' = load(<<>>, call.file.json).goal_data
            /\ call' = [call EXCEPT !.read_ok = TRUE]
            /\ pc' = "delete"
       ELSE /\ call' = [call EXCEPT !.stdout = Append(@, CouldNotOpen)]
            /\ pc' = "exit"
            /\ UNCHANGED <<heap, goal_data>>

\* Lines 205-211: the ValueError of delete is caught and printed.
MainDelete ==
    /\ pc = "delete"
    /\ IF call.args.delete = <<>>
       THEN UNCHANGED <<heap, goal_data, call>>
       ELSE LET specifier == call.args.delete[1]
                r == delete_from_specifier(heap, goal_data, specifier)
            IN  /\ heap' = r.heap
                /\ goal_data' = r.goal_data
                /\ call' = [call EXCEPT
                      !.ran = @ \cup {"delete"},
                      !.failed = IF r.ret = "True" THEN @
                                 ELSE @ \cup {"delete"},
                      !.stdout = IF r.ret = "True" THEN @
                                 ELSE IF r.ret = "False"
                                 THEN Append(@, NoSuchGoalToDelete(specifier))
                                 ELSE Append(@, r.ret)]
    /\ pc' = "complete"

\* Lines 213-225: nothing is caught here, an exception ends the run.
MainMark(flag, argument, message, val, next) ==
    /\ pc = flag
    /\ IF argument = <<>>
       THEN /\ pc' = next
            /\ UNCHANGED <<heap, call>>
       ELSE LET r == mark(heap, goal_data, argument[1], val, message)
                raised == r.ret \in {IndexNotInRange, NoneHasNoAuto}
            IN  /\ heap' = r.heap
                /\ call' = [call EXCEPT
                      !.ran = @ \cup {flag},
                      !.failed = IF raised THEN @ \cup {flag} ELSE @,
                      !.stdout = IF r.ret = message THEN Append(@, message)
                                 ELSE @,
                      !.exception = IF raised THEN r.ret ELSE @]
                /\ pc' = IF raised THEN "crashed" ELSE next
    /\ UNCHANGED goal_data

MainComplete ==
    MainMark("complete", call.args.complete, CannotMarkDone, "True",
             "incomplete")

MainIncomplete ==
    MainMark("incomplete", call.args.incomplete, CannotMarkUndone, "False",
             "show")

\* Lines 227-232: the message for a goal not found reads args.print, which
\* the parser does not define.
MainShow ==
    /\ pc = "show"
    /\ IF call.args.show = <<>>
       THEN /\ pc' = "progress"
            /\ UNCHANGED call
       ELSE LET to_print == find_from_specifier(heap, goal_data,
                                                call.args.show[1])
                raised == to_print.ret # "returned" \/ to_print.goal = None
            IN  /\ call' = [call EXCEPT
                      !.ran = @ \cup {"show"},
                      !.failed = IF raised THEN @ \cup {"show"} ELSE @,
                      !.stdout =
                          IF raised THEN @
                          ELSE Append(@, pretty_str(heap, to_print.goal,
                                                    0, 4)),
                      !.exception =
                          IF to_print.ret # "returned" THEN to_print.ret
                          ELSE IF to_print.goal = None
                          THEN NamespaceHasNoPrint
                          ELSE @]
                /\ pc' = IF raised THEN "crashed" ELSE "progress"
    /\ UNCHANGED <<heap, goal_data>>

\* Lines 234-248.
MainProgress ==
    /\ pc = "progress"
    /\ IF call.args.progress = <<>>
       THEN /\ pc' = "list"
            /\ UNCHANGED call
       ELSE LET specifier == call.args.progress[1]
                to_print == find_from_specifier(heap, goal_data, specifier)
                raised == to_print.ret # "returned"
                g == to_print.goal
            IN  /\ call' = [call EXCEPT
                      !.ran = @ \cup {"progress"},
                      !.failed = IF raised \/ g = None
                                 THEN @ \cup {"progress"} ELSE @,
                      !.stdout =
                          IF raised THEN @
                          ELSE IF g = None
                          THEN Append(@, NoSuchGoalToPrintProgress(specifier))
                          ELSE Append(@, progress(heap[g]._done,
                                                  Len(heap[g].children),
                                                  children_done(heap, g))),
                      !.exception = IF raised THEN to_print.ret ELSE @]
                /\ pc' = IF raised THEN "crashed" ELSE "list"
    /\ UNCHANGED <<heap, goal_data>>

\* Lines 250-252: pretty_str is called with the keyword idx for the first
\* goal of the document.
MainList ==
    /\ pc = "list"
    /\ IF ~ call.args.list
       THEN /\ pc' = "write"
            /\ UNCHANGED call
       ELSE IF goal_data = <<>>
       THEN /\ pc' = "write"
            /\ call' = [call EXCEPT !.ran = @ \cup {"list"}]
       ELSE IF "idx" \in pretty_str_parameters
       THEN /\ pc' = "write"
            /\ call' = [call EXCEPT
                  !.ran = @ \cup {"list"},
                  !.stdout = @ \o [i \in 1..Len(goal_data) |->
                                      pretty_str(heap, goal_data[i], 0, 4)]]
       ELSE /\ pc' = "crashed"
            /\ call' = [call EXCEPT !.ran = @ \cup {"list"},
                                    !.exception = UnexpectedKeyword]
    /\ UNCHANGED <<heap, goal_data>>

\* Lines 254-259.
MainWrite ==
    /\ pc = "write"
    /\ call' = [call EXCEPT
          !.file = [readable |-> TRUE, json |-> dump(heap, goal_data)],
          !.written = TRUE]
    /\ pc' = "exit"
    /\ UNCHANGED <<heap, goal_data>>

NextMain ==
    \/ MainNew
    \/ MainRead
    \/ MainDelete
    \/ MainComplete
    \/ MainIncomplete
    \/ MainShow
    \/ MainProgress
    \/ MainList
    \/ MainWrite

SpecMain == InitMain /\ [][NextMain]_vars

Ended == pc \in {"exit", "crashed"}

Requested(flag) ==
    IF flag = "list" THEN call.args.list ELSE call.args[flag] # <<>>

\* C12: in a run whose read succeeded, a flag whose specifier does not
\* resolve or has an integer segment out of range does not stop the run:
\* every later flag that was requested still runs.
C12_FailureAbortsOnlyItsFlag ==
    (Ended /\ call.read_ok) =>
        \A i, j \in 1..Len(FlagOrder) :
            (i < j /\ FlagOrder[i] \in call.failed /\ Requested(FlagOrder[j]))
                => FlagOrder[j] \in call.ran

\* C13: every run that read the document reaches the final write of the
\* document to the file.
C13_ReadRunsReachWrite ==
    (Ended /\ call.read_ok) => call.written

\* C14: without --new an unreadable file gives "Could not open", no
\* operation runs and the file is never written; with --new an unreadable
\* file counts as the empty document and the document is written after the
\* create attempt, however it ended.
C14_UnreadableFile ==
    /\ (call.args.new = <<>> /\ ~ call.file0.readable) =>
          /\ pc \in {"new", "read", "exit"}
          /\ call.file = Unreadable
          /\ ~ call.written
          /\ call.ran = {}
          /\ heap = <<>> /\ goal_data = <<>>
          /\ pc = "exit" => call.stdout = <<CouldNotOpen>>
    /\ (call.args.new # <<>> /\ pc # "new") =>
          /\ call.new_written.readable
          /\ call.created \in {"True", "False", LastElementIndex,
                               IndexNotInRange}
          /\ ~ call.file0.readable =>
                LET r == create_from_specifier(<<>>, <<>>, call.args.new[1])
                IN  call.new_written.json = dump(r.heap, r.goal_data)

\* A run without --new on an unreadable file ended with the message.
C14_Witness ==
    /\ pc = "exit"
    /\ call.args.new = <<>>
    /\ call.args.delete # <<>>
    /\ call.args.list
    /\ ~ call.file0.readable
    /\ call.stdout = <<CouldNotOpen>>

====
